---- MODULE Spec2Model ----
(***************************************************************************)
(* A model of tinymath.h, a Q16.16 fixed-point library.                    *)
(*                                                                         *)
(* A `fixed` is a C int32_t and is modelled by the TLA+ integer with the   *)
(* same value.  TLC's integers are themselves 32 bits wide, so every C     *)
(* operation that may leave the int32 range is written with the wrapping   *)
(* helpers below (two's complement, as the library's documentation says    *)
(* of overflow), and a C uint64_t is modelled by its four 16-bit limbs,    *)
(* least significant first.                                                *)
(*                                                                         *)
(* Where the outcome of the C code differs between builds the model       *)
(* chooses nondeterministically:                                           *)
(*   - the shift `1 << i` with i >= 32 in div_fixed, by the variable       *)
(*     shiftMode chosen in Init: "mask", the count is taken modulo 32      *)
(*     (x86, AArch64), or "zero", the result is 0 (ARM32);                 *)
(*   - INT_MIN / -1 in div_fast_fixed: a trap or INT_MIN;                  *)
(*   - `return sin_fixed(..)`: a call that takes stack, or a jump.         *)
(***************************************************************************)
EXTENDS Integers, Sequences, FiniteSets, TLC

VARIABLES
  shiftMode,  \* how the build resolves `1 << i` for i >= 32
  pc,         \* position of the calling thread
  op,         \* the library function that was called
  a, b,       \* its arguments (b is 0 for a one-argument function)
  res,        \* the fixed / int it returned
  str,        \* the string it returned (fixed_to_dec_str), as character codes
  dv,         \* div_fixed's locals while its loop runs
  sf,         \* sin_fixed: the parameter f of the innermost activation
  stack,      \* sin_fixed: what each suspended activation does with the callee's value
  rv,         \* sin_fixed: the value being returned
  mem,        \* the static buffers of the two renderers, by address
  cpc,        \* per execution context: position inside / after a renderer call
  cfn,        \* per execution context: the renderer it called last
  carg,       \* per execution context: the argument it passed
  cloc,       \* per execution context: the local f of the call in progress
  cref,       \* per execution context: the char* it was handed back
  cseen,      \* per execution context: the text it last read through cref
  last        \* per renderer: the most recent argument passed to it

vars == <<shiftMode, pc, op, a, b, res, str, dv, sf, stack, rv,
          mem, cpc, cfn, carg, cloc, cref, cseen, last>>

----------------------------------------------------------------------------
(* Program constants.                                                      *)

FIXED_1 == 65536
INT_MAX == 2147483647
INT_MIN == -INT_MAX - 1
FIXED_SQRT2 == 92682
FIXED_PI == 205887
FIXED_PIBY2 == 102944
FIXED_3PIBY2 == 308831
FIXED_2PI == 411775

----------------------------------------------------------------------------
(* int32 arithmetic with two's-complement wrap-around.                     *)
(*                                                                         *)
(* Every operator that reads an argument more than once first binds it     *)
(* (x \in {x0}), so that the argument's value is computed once, on entry,  *)
(* as in a C call.                                                         *)

Limb == 2^16

\* -x
neg32(x0) ==
  CHOOSE v \in {IF x = INT_MIN THEN INT_MIN ELSE -x : x \in {x0}} : TRUE

\* x + y
add32(x0, y0) ==
  CHOOSE v \in
    { IF x >= 0 /\ y >= 0 /\ y > INT_MAX - x
        THEN (x + INT_MIN) + (y + INT_MIN)
      ELSE IF x < 0 /\ y < 0 /\ y < INT_MIN - x
        THEN ((x + INT_MAX) + 1) + ((y + INT_MAX) + 1)
      ELSE x + y
      : x \in {x0}, y \in {y0} } : TRUE

\* x - y
sub32(x, y) == add32(x, neg32(y))

\* sign * x, for sign in {1, -1}
signed32(sign, x) == IF sign = -1 THEN neg32(x) ELSE x

\* x << 1
shl1_32(x0) ==
  CHOOSE v \in
    { IF u >= 2^30 THEN (u % 2^30) * 2 + INT_MIN ELSE u * 2
      : u \in {IF x0 < 0 THEN (x0 + INT_MAX) + 1 ELSE x0} } : TRUE

\* x << k
RECURSIVE shl32(_, _)
shl32(x0, k0) ==
  CHOOSE v \in
    { IF k = 0 THEN x ELSE shl32(shl1_32(x), k - 1) : x \in {x0}, k \in {k0} } : TRUE

\* INT_TO_FIX(N): N << 16
INT_TO_FIX(N) == shl32(N, 16)

\* x >> k (arithmetic)
shr32(x, k) == IF k >= 31 THEN (IF x < 0 THEN -1 ELSE 0) ELSE x \div 2^k

\* bit k of x, k in 0..31
Bit(x, k) == IF k >= 31 THEN (IF x < 0 THEN 1 ELSE 0) ELSE (x \div 2^k) % 2

\* x / p for p > 0, C's division truncating toward zero
cdiv_pos(x0, p0) ==
  CHOOSE v \in
    { IF x < 0 /\ x % p # 0 THEN (x \div p) + 1 ELSE x \div p
      : x \in {x0}, p \in {p0} } : TRUE

\* x / y, C's division truncating toward zero (y # 0, y # INT_MIN, no INT_MIN / -1)
cdiv(x, y) == IF y < 0 THEN -cdiv_pos(x, -y) ELSE cdiv_pos(x, y)

----------------------------------------------------------------------------
(* uint64_t as four 16-bit limbs.                                          *)

U64Zero == <<0, 0, 0, 0>>

\* (uint64_t)x for an int32 x: sign extension
ToU64(x0) ==
  CHOOSE v \in
    { IF x >= 0 THEN <<x % Limb, x \div Limb, 0, 0>>
                ELSE <<x % Limb, (x \div Limb) + Limb, Limb - 1, Limb - 1>>
      : x \in {x0} } : TRUE

\* (fixed)u: the low 32 bits, read as a signed value
Low32(u0) ==
  CHOOSE v \in
    { IF u[2] >= 2^15 THEN (u[2] - Limb) * Limb + u[1] ELSE u[2] * Limb + u[1]
      : u \in {u0} } : TRUE

RECURSIVE BitAnd(_, _)
BitAnd(x0, y0) ==
  CHOOSE v \in
    { IF x = 0 \/ y = 0 THEN 0
      ELSE (x % 2) * (y % 2) + 2 * BitAnd(x \div 2, y \div 2)
      : x \in {x0}, y \in {y0} } : TRUE

RECURSIVE BitOr(_, _)
BitOr(x0, y0) ==
  CHOOSE v \in
    { IF x = 0 THEN y ELSE IF y = 0 THEN x
      ELSE (IF x % 2 = 1 \/ y % 2 = 1 THEN 1 ELSE 0) + 2 * BitOr(x \div 2, y \div 2)
      : x \in {x0}, y \in {y0} } : TRUE

U64And(u0, v0) ==
  CHOOSE r \in
    { <<BitAnd(u[1], v[1]), BitAnd(u[2], v[2]), BitAnd(u[3], v[3]), BitAnd(u[4], v[4])>>
      : u \in {u0}, v \in {v0} } : TRUE

U64Or(u0, v0) ==
  CHOOSE r \in
    { <<BitOr(u[1], v[1]), BitOr(u[2], v[2]), BitOr(u[3], v[3]), BitOr(u[4], v[4])>>
      : u \in {u0}, v \in {v0} } : TRUE

LimbAt(u, k) == IF k \in 1..4 THEN u[k] ELSE 0

\* u >> n, n in 0..63
U64Shr(u0, n0) ==
  LET L(u, ls, bs, k) ==
        (LimbAt(u, k + ls) \div 2^bs) + (LimbAt(u, k + ls + 1) % 2^bs) * 2^(16 - bs)
  IN  CHOOSE r \in
        { <<L(u, ls, bs, 1), L(u, ls, bs, 2), L(u, ls, bs, 3), L(u, ls, bs, 4)>>
          : u \in {u0}, ls \in {n0 \div 16}, bs \in {n0 % 16} } : TRUE

\* u << 16
U64Shl16(u0) == CHOOSE r \in {<<0, u[1], u[2], u[3]>> : u \in {u0}} : TRUE

\* the 32-bit product of two limbs, as <<low limb, high limb>>
LimbMul(x0, y0) ==
  CHOOSE r \in
    { <<((hiPart % 256) * 256 + loPart) % Limb, (hiPart + loPart \div 256) \div 256>>
      : hiPart \in {x0 * (y0 \div 256)}, loPart \in {x0 * (y0 % 256)} } : TRUE

\* u * v modulo 2^64; pij is the product of limb i of u and limb j of v
U64Mul(u0, v0) ==
  LET cols(u, v) ==
        CHOOSE r \in
          { <<p11[1],
              p11[2] + p12[1] + p21[1],
              p12[2] + p21[2] + p13[1] + p22[1] + p31[1],
              p13[2] + p22[2] + p31[2]
                + LimbMul(u[1], v[4])[1] + LimbMul(u[2], v[3])[1]
                + LimbMul(u[3], v[2])[1] + LimbMul(u[4], v[1])[1]>>
            : p11 \in {LimbMul(u[1], v[1])}, p12 \in {LimbMul(u[1], v[2])},
              p21 \in {LimbMul(u[2], v[1])}, p13 \in {LimbMul(u[1], v[3])},
              p22 \in {LimbMul(u[2], v[2])}, p31 \in {LimbMul(u[3], v[1])} } : TRUE
      carry(c) ==
        CHOOSE r \in
          { <<c[1], c[2] % Limb, c3 % Limb, (c[4] + c3 \div Limb) % Limb>>
            : c3 \in {c[3] + c[2] \div Limb} } : TRUE
  IN  CHOOSE r \in {carry(c) : c \in {cols(u, v) : u \in {u0}, v \in {v0}}} : TRUE

\* x & y on int32 values
and32(x, y) == Low32(U64And(ToU64(x), ToU64(y)))

\* the int expression `1 << i`
RECURSIVE one_shl(_)
one_shl(i) ==
  IF i <= 30 THEN 2^i
  ELSE IF i = 31 THEN INT_MIN
  ELSE IF shiftMode = "mask" THEN one_shl(i % 32) ELSE 0

----------------------------------------------------------------------------
(* The arithmetic engine.                                                  *)

\* Every function below binds its arguments once (x \in {x0}): the value of
\* an argument is computed on entry, as in a C call.
mul_fixed(x0, y0) ==
  LET body(x, y) ==
        LET sign  == (IF x < 0 THEN -1 ELSE 1) * (IF y < 0 THEN -1 ELSE 1)
            ax    == IF x < 0 THEN neg32(x) ELSE x
            ay    == IF y < 0 THEN neg32(y) ELSE y
            along == ToU64(ax)
            blong == ToU64(ay)
        IN  signed32(sign, Low32(U64Shr(U64Mul(along, blong), 16)))
  IN  CHOOSE v \in {body(x, y) : x \in {x0}, y \in {y0}} : TRUE

\* div_fixed's locals after the sign handling, before the loop
DivInit(x, y) ==
  [ sign |-> (IF x < 0 THEN -1 ELSE 1) * (IF y < 0 THEN -1 ELSE 1),
    b    |-> IF y < 0 THEN neg32(y) ELSE y,
    n    |-> U64Shl16(ToU64(IF x < 0 THEN neg32(x) ELSE x)),
    q    |-> U64Zero,
    r    |-> 0,
    i    |-> 63 ]

\* one iteration of div_fixed's loop
DivStep(st) ==
  LET body(mask, r2) ==
        IF r2 >= st.b
          THEN [st EXCEPT !.r = sub32(r2, st.b), !.q = U64Or(st.q, mask), !.i = st.i - 1]
          ELSE [st EXCEPT !.r = r2, !.i = st.i - 1]
      step(mask) ==
        CHOOSE v \in {body(mask, r2) :
          r2 \in {Low32(U64Or(ToU64(shl1_32(st.r)),
                              U64Shr(U64And(st.n, mask), st.i)))}} : TRUE
  IN  CHOOSE v \in {step(mask) : mask \in {ToU64(one_shl(st.i))}} : TRUE

\* n iterations of the loop (n a power of two), the second half run on the
\* locals the first half leaves
RECURSIVE DivIter(_, _)
DivIter(st0, n) ==
  CHOOSE v \in
    { IF n = 1 THEN DivStep(st) ELSE DivIter(DivIter(st, n \div 2), n \div 2)
      : st \in {st0} } : TRUE

\* for (int i=63; i>=0; i--)
DivRun(st) == DivIter(st, 64)

DivResult(st) == signed32(st.sign, Low32(st.q))

div_fixed(x0, y0) ==
  CHOOSE v \in {DivResult(DivRun(DivInit(x, y))) : x \in {x0}, y \in {y0}} : TRUE

\* get_scale scanning one bit too high: bit scale+16 for scale
RECURSIVE get_scale_from_bit16(_, _)
get_scale_from_bit16(f, scale) ==
  IF scale > -16
    THEN IF Bit(f, scale + 16) # 0 THEN scale ELSE get_scale_from_bit16(f, scale - 1)
    ELSE scale

RECURSIVE get_scale_from(_, _)
get_scale_from(f, scale) ==
  IF scale > -16
    THEN IF Bit(f, scale + 15) # 0 THEN scale ELSE get_scale_from(f, scale - 1)
    ELSE scale

get_scale(f) == get_scale_from(f, 15)

\* the ternary of the div_fast_fixed macro, where it is defined: the quotient
\* INT_MIN / -1 is left to the caller of this operator (see Call_div_fast)
div_fast_fixed(x, y) ==
  IF shr32(y, 8) # 0
    THEN cdiv(shl32(x, 8), shr32(y, 8))
    ELSE IF shl32(x, 8) > 0 THEN INT_MAX ELSE -INT_MAX

\* whether div_fast_fixed(x, y) evaluates INT_MIN / -1
DivFastOverflows(x, y) == shr32(y, 8) = -1 /\ shl32(x, 8) = INT_MIN

----------------------------------------------------------------------------
(* Square root and power.                                                  *)

RECURSIVE sqrt_NR_loop(_, _, _)
sqrt_NR_loop(f, rf0, n0) ==
  CHOOSE v \in
    { IF n = 0 THEN rf
      ELSE sqrt_NR_loop(f, mul_fixed(INT_TO_FIX(2), add32(rf, div_fixed(f, rf))), n - 1)
      : rf \in {rf0}, n \in {n0} } : TRUE

sqrt_NR_fixed(f, niter) ==
  sqrt_NR_loop(f, add32(FIXED_1, shr32(sub32(f, FIXED_1), 1)), niter)

sqrt_fast_fixed(f0) ==
  LET body(f) ==
        IF f = 0 THEN 0
        ELSE IF f < 0 THEN -INT_MAX
        ELSE IF f = FIXED_1 THEN FIXED_1
        ELSE
          LET div     == get_scale(f) - 1
              fn      == div_fixed(f, one_shl(div + 16))
              root0   == IF div % 2 # 0 THEN FIXED_SQRT2 ELSE FIXED_1
              div2    == IF div < 0 THEN div - 1 ELSE div
              sf_root == one_shl(16 + cdiv(div2, 2))
          IN  mul_fixed(mul_fixed(root0, sf_root), sqrt_NR_fixed(fn, 2))
  IN  CHOOSE v \in {body(f) : f \in {f0}} : TRUE

RECURSIVE pow_fixed_to_int(_, _)
pow_fixed_to_int(f0, p0) ==
  LET body(f, p) ==
        IF p = 0 THEN FIXED_1
        ELSE IF p = 1 THEN f
        ELSE IF p = 2 THEN mul_fixed(f, f)
        ELSE IF p % 2 # 0 THEN mul_fixed(f, pow_fixed_to_int(f, p - 1))
        ELSE LET y(v) == mul_fixed(v, v)
             IN  CHOOSE r \in {y(v) : v \in {pow_fixed_to_int(f, cdiv(p, 2))}} : TRUE
  IN  CHOOSE v \in {body(f, p) : f \in {f0}, p \in {p0}} : TRUE

\* temp = sqrt_fast_fixed(temp), j times
RECURSIVE sqrt_times(_, _)
sqrt_times(t0, j0) ==
  CHOOSE v \in
    { IF j = 0 THEN t ELSE sqrt_times(sqrt_fast_fixed(t), j - 1) : t \in {t0}, j \in {j0} } : TRUE

\* the loop of pow_fixed_to_frac from index i down to 0, pow being the accumulator
RECURSIVE pow_frac_loop(_, _, _, _)
pow_frac_loop(f, p, i0, pow0) ==
  CHOOSE v \in
    { IF i < 0 THEN pow
      ELSE IF and32(p, one_shl(i)) # 0
        THEN pow_frac_loop(f, p, i - 1,
                           mul_fixed(pow, sqrt_times(sqrt_fast_fixed(f), 15 - i)))
        ELSE pow_frac_loop(f, p, i - 1, pow)
      : i \in {i0}, pow \in {pow0} } : TRUE

pow_fixed_to_frac(f, p) == pow_frac_loop(f, p, 15, FIXED_1)

\* the integer part taken with a shift of 15 instead of 16
pow_p_int_shift15(p) == shr32(IF p < 0 THEN neg32(p) ELSE p, 15)

\* the exponent's integer and fractional part, as pow_fixed splits it
pow_p_int(p) == shr32(IF p < 0 THEN neg32(p) ELSE p, 16)
pow_p_frac(p) == and32(IF p < 0 THEN neg32(p) ELSE p, FIXED_1 - 1)

pow_fixed(f0, p0) ==
  LET body(f, p) ==
        LET pow(v) == IF p < 0 THEN div_fixed(FIXED_1, v) ELSE v
        IN  CHOOSE r \in {pow(v) : v \in
              {mul_fixed(pow_fixed_to_int(f, pow_p_int(p)),
                         pow_fixed_to_frac(f, pow_p_frac(p)))}} : TRUE
  IN  CHOOSE v \in {body(f, p) : f \in {f0}, p \in {p0}} : TRUE

\* the first-quadrant branch of sin_fixed
sin_series(f0) ==
  LET body(f) ==
        LET t(f3) ==
              LET u(f5) ==
                    LET w(f7) ==
                          sub32(add32(sub32(f, div_fixed(f3, INT_TO_FIX(6))),
                                      div_fixed(f5, INT_TO_FIX(120))),
                                div_fixed(f7, INT_TO_FIX(5040)))
                    IN  CHOOSE r \in {w(f7) : f7 \in {mul_fixed(mul_fixed(f5, f), f)}} : TRUE
              IN  CHOOSE r \in {u(f5) : f5 \in {mul_fixed(mul_fixed(f3, f), f)}} : TRUE
        IN  CHOOSE r \in {t(f3) : f3 \in {mul_fixed(mul_fixed(f, f), f)}} : TRUE
  IN  CHOOSE v \in {body(f) : f \in {f0}} : TRUE

----------------------------------------------------------------------------
(* The string formatter.  A string is the sequence of its character codes; *)
(* a char buffer is a sequence of bytes, 0 being the terminator.           *)

\* the C string a buffer holds: the bytes before the first 0
CStr(buf) ==
  LET n == CHOOSE k \in 1..(Len(buf) + 1) :
             /\ k = Len(buf) + 1 \/ buf[k] = 0
             /\ \A j \in 1..(k - 1) : buf[j] # 0
  IN  SubSeq(buf, 1, n - 1)

get_hex_char(i) == IF i < 10 THEN i + 48 ELSE i + 55

\* the first statement of both renderers: str[0] = '-' or ' '
write_sign(buf, f) == [buf EXCEPT ![1] = IF f < 0 THEN 45 ELSE 32]

\* f = -f, taken when f < 0
abs_local(f) == IF f < 0 THEN neg32(f) ELSE f

\* fixed_to_bin_str's loop and terminator; f is the local after the sign step.
\* C index 33-p is index 34-p here; bit i is p below the '.', p-1 above it.
bin_write_digits(buf, f) ==
  [k \in 1..35 |->
     IF k = 1 THEN buf[1]
     ELSE IF k = 35 THEN 0
     ELSE IF 34 - k = 16 THEN 46
     ELSE LET i == IF 34 - k < 16 THEN 34 - k ELSE 33 - k
          IN  get_hex_char(shr32(and32(f, one_shl(i)), i))]

\* fixed_to_hex_str's loop and terminator
hex_write_digits(buf, f) ==
  [k \in 1..11 |->
     IF k = 1 THEN buf[1]
     ELSE IF k = 11 THEN 0
     ELSE IF 10 - k = 4 THEN 46
     ELSE LET i == IF 10 - k < 4 THEN 10 - k ELSE 9 - k
          IN  get_hex_char(shr32(and32(f, shl32(15, 4 * i)), 4 * i))]

\* what a complete call leaves in the buffer
fixed_to_bin_str(buf, f) == bin_write_digits(write_sign(buf, f), abs_local(f))
fixed_to_hex_str(buf, f) == hex_write_digits(write_sign(buf, f), abs_local(f))

\* static char str[35] and static char str[11], zero-initialised
BinBufInit == [k \in 1..35 |-> 0]
HexBufInit == [k \in 1..11 |-> 0]

(* fixed_to_dec_str.  A uint64_t below 2^40 is kept as <<high, low>> in     *)
(* base 10^6, which holds DEC_LOOKUP's entries, OVERFLOW and every sum.     *)

Mega == 10^6

DEC_LOOKUP ==
  << <<500000, 0>>, <<250000, 0>>, <<125000, 0>>, <<62500, 0>>,
     <<31250, 0>>, <<15625, 0>>, <<7812, 500000>>, <<3906, 250000>>,
     <<1953, 125000>>, <<976, 562500>>, <<488, 281250>>, <<244, 140625>>,
     <<122, 70312>>, <<61, 35156>>, <<30, 517578>>, <<15, 258789>> >>

OVERFLOW == <<Mega, 0>>

DecAdd(x, y) == <<x[1] + y[1] + (x[2] + y[2]) \div Mega, (x[2] + y[2]) % Mega>>
DecSub(x, y) ==
  IF x[2] >= y[2] THEN <<x[1] - y[1], x[2] - y[2]>>
                  ELSE <<x[1] - y[1] - 1, x[2] + Mega - y[2]>>
DecGt(x, y) == x[1] > y[1] \/ (x[1] = y[1] /\ x[2] > y[2])

\* the loop over the fraction bits from index i down to 0;
\* acc is [intpart, decpart]
RECURSIVE dec_loop(_, _, _)
dec_loop(f, i0, acc0) ==
  LET carry(acc) ==
        IF DecGt(acc.decpart, OVERFLOW)
          THEN [intpart |-> (acc.intpart + 1) % Limb,
                decpart |-> DecSub(acc.decpart, OVERFLOW)]
          ELSE acc
      add(acc, i) ==
        IF Bit(f, i) # 0
          THEN [acc EXCEPT !.decpart = DecAdd(acc.decpart, DEC_LOOKUP[16 - i])]
          ELSE acc
  IN  CHOOSE v \in
        { IF i < 0 THEN acc
          ELSE CHOOSE w \in {dec_loop(f, i - 1, carry(x)) : x \in {add(acc, i)}} : TRUE
          : i \in {i0}, acc \in {acc0} } : TRUE

\* "%d" of a non-negative int
RECURSIVE IntDigits(_)
IntDigits(n) ==
  IF n < 10 THEN <<n + 48>> ELSE Append(IntDigits(n \div 10), (n % 10) + 48)

\* "%012ld" of a value below 10^12
Digits12(d) ==
  [k \in 1..12 |->
     IF k <= 6 THEN ((d[1] \div 10^(6 - k)) % 10) + 48
               ELSE ((d[2] \div 10^(12 - k)) % 10) + 48]

\* len after `while (intpartcpy > 0) { len++; intpartcpy /= 10; }`
RECURSIVE dec_len(_, _)
dec_len(len, intpartcpy) ==
  IF intpartcpy > 0 THEN dec_len(len + 1, intpartcpy \div 10) ELSE len

\* snprintf(str, len, ...): at most len-1 characters, then the terminator
snprintf(len, text) ==
  LET n == IF Len(text) < len - 1 THEN Len(text) ELSE len - 1
  IN  [k \in 1..len |-> IF k <= n THEN text[k] ELSE 0]

\* the trailing-zero loop from index i down to 0: the len it leaves
RECURSIVE dec_trim(_, _, _)
dec_trim(buf, len, i) ==
  IF i >= 0 /\ buf[i + 1] = 48 THEN dec_trim(buf, len - 1, i - 1) ELSE len

\* the 12-digit fractional field and the integer part, before formatting
dec_parts(f) ==
  LET g == abs_local(f)
  IN  dec_loop(g, 15, [intpart |-> shr32(g, 16) % Limb, decpart |-> <<0, 0>>])

fixed_to_dec_str(f0) ==
  LET body(f, parts) ==
        LET len0 == dec_len(3 + 12, parts.intpart)
            text == <<32>> \o IntDigits(parts.intpart) \o <<46>> \o Digits12(parts.decpart)
            buf0 == snprintf(len0, text)
            len1 == dec_trim(buf0, len0, len0 - 2)
            buf1 == [buf0 EXCEPT ![len1] = 0]
            buf2 == IF f < 0 THEN [buf1 EXCEPT ![1] = 45] ELSE buf1
        IN  CStr(buf2)
  IN  CHOOSE v \in {body(f, parts) : f \in {f0}, parts \in {dec_parts(f0)}} : TRUE

----------------------------------------------------------------------------
(* Bounds of the model and the arguments the calls are tried on.           *)

Spread == 1      \* each anchor value v is tried as v-Spread .. v+Spread
MaxTurns == 2    \* sin_fixed is tried up to MaxTurns periods away from [0, 2pi]
MaxDepth == 4    \* nested activations of sin_fixed the stack has room for
MaxCalls == 2    \* renderer calls made in one run

\* v-Spread .. v+Spread around each member of S, within int32
Around(S) ==
  { IF d < 0 THEN (IF v < INT_MIN - d THEN INT_MIN ELSE v + d)
             ELSE (IF v > INT_MAX - d THEN INT_MAX ELSE v + d)
    : v \in S, d \in -Spread..Spread }

Mirror(S) == S \cup {neg32(v) : v \in S}

\* 0, 1.0, 2.5, 3.0, 4.0, 10.0, 0.5 and the largest and smallest values
Anchors == {0, FIXED_1, 163840, 196608, 262144, 655360, 32768, INT_MAX, INT_MIN}

\* dividends and divisors with a magnitude above 2^30 (16384.0)
LargeAnchors == {1073741824, 1342177280, 1610612736}

MulArgs == Mirror(Around(Anchors))
DivArgsA == Mirror(Around({0, FIXED_1, 655360, INT_MAX, INT_MIN}) \cup LargeAnchors)
DivArgsB == Mirror({FIXED_1, 262144, 196608, 3, INT_MIN}) \cup Around(LargeAnchors)

\* every binade of the positive range, at both ends, and some non-positive values
ScaleArgs ==
  {0, -1, INT_MIN} \cup Around({2^k : k \in 0..30}) \cup {INT_MAX}

\* dividends on both sides of the point where a << 8 changes sign
DivFastArgsA == Mirror(Around({0, 5, 655360, 2^23, 2^24, INT_MAX}))
DivFastArgsB == Mirror({0, 1, 255, 256, 262144})

\* roots whose square fits, up to the largest one, and some whose square does not
RootArgs == Mirror(Around({0, FIXED_1, 131072, 196608, 32768, 1000, 6553600, 11863283})
                   \cup {2^24, INT_MAX})
SqrtArgs == {mul_fixed(x, x) : x \in RootArgs} \cup {-FIXED_1, INT_MAX}

\* exponents 2, 0, 1, 3, 1/2, -1, -2
PowExponents == {131072, 0, FIXED_1, 196608, 32768, -FIXED_1, -131072}

\* all bits of the fraction, no fraction, carries into the integer digits
DecArgs == Mirror(Around(Anchors) \cup {131071, 6553600, 65537, 65535})

\* the quadrant boundaries, their neighbours, and an inner point of quadrant one
SinOffsets ==
  Around({0, FIXED_PIBY2, FIXED_PI, FIXED_3PIBY2}) \cup {FIXED_1, FIXED_2PI - 1}
SinArgs ==
  {k * FIXED_2PI + d : k \in -MaxTurns..MaxTurns, d \in SinOffsets}
    \cup {INT_MAX, INT_MIN}

\* 1.0 and -2.5
FmtArgs == {FIXED_1, -163840}
Contexts == {"c1", "c2"}
Renderers == {"bin", "hex"}

----------------------------------------------------------------------------
(* The calling thread: one call of a pure function.                        *)

DivIdle == [sign |-> 1, b |-> 0, n |-> U64Zero, q |-> U64Zero, r |-> 0, i |-> -1]

\* a buffer per calling context (thread-local) instead of one static
buf_addr_per_context(fn, c) ==
  IF fn = "bin" THEN (IF c = "c1" THEN "bin.str.c1" ELSE "bin.str.c2")
                ELSE (IF c = "c1" THEN "hex.str.c1" ELSE "hex.str.c2")

\* the address a renderer returns to context c: its function-local static
buf_addr(fn, c) == IF fn = "bin" THEN "fixed_to_bin_str.str" ELSE "fixed_to_hex_str.str"

Addrs == {buf_addr(fn, c) : fn \in Renderers, c \in Contexts}

buf_init(addr) ==
  IF \E c \in Contexts : addr = buf_addr("bin", c) THEN BinBufInit ELSE HexBufInit

Init ==
  /\ shiftMode \in {"mask", "zero"}
  /\ pc = "idle" /\ op = "none" /\ a = 0 /\ b = 0 /\ res = 0 /\ str = <<>>
  /\ dv = DivIdle
  /\ sf = 0 /\ stack = <<>> /\ rv = 0
  /\ mem = [ad \in Addrs |-> buf_init(ad)]
  /\ cpc = [c \in Contexts |-> "idle"]
  /\ cfn = [c \in Contexts |-> "none"]
  /\ carg = [c \in Contexts |-> [fn \in Renderers |-> 0]]
  /\ cloc = [c \in Contexts |-> 0]
  /\ cref = [c \in Contexts |-> [fn \in Renderers |-> "null"]]
  /\ cseen = [c \in Contexts |-> [fn |-> "none", text |-> <<>>]]
  /\ last = [fn \in Renderers |-> [arg |-> 0, calls |-> 0, torn |-> FALSE]]

sinVars == <<sf, stack, rv>>
fmtVars == <<mem, cpc, cfn, carg, cloc, cref, cseen, last>>

\* a call that returns a fixed or an int at once
Returns(name, x, y, value) ==
  /\ pc = "idle"
  /\ pc' = "done" /\ op' = name /\ a' = x /\ b' = y /\ res' = value
  /\ UNCHANGED <<shiftMode, str, dv, sinVars, fmtVars>>

Call_mul(x, y) == Returns("mul_fixed", x, y, mul_fixed(x, y))

Call_get_scale(f) == Returns("get_scale", f, 0, get_scale(f))

Call_sqrt(f) == Returns("sqrt_fast_fixed", f, 0, sqrt_fast_fixed(f))

Call_pow(f, p) == Returns("pow_fixed", f, p, pow_fixed(f, p))

\* div_fast_fixed; INT_MIN / -1 is undefined: the division instruction traps
\* (x86) or yields INT_MIN (ARM)
Call_div_fast(x, y) ==
  \/ /\ ~DivFastOverflows(x, y)
     /\ Returns("div_fast_fixed", x, y, div_fast_fixed(x, y))
  \/ /\ DivFastOverflows(x, y)
     /\ Returns("div_fast_fixed", x, y, INT_MIN)
  \/ /\ DivFastOverflows(x, y)
     /\ pc = "idle"
     /\ pc' = "trapped" /\ op' = "div_fast_fixed" /\ a' = x /\ b' = y
     /\ UNCHANGED <<shiftMode, res, str, dv, sinVars, fmtVars>>

Call_dec_str(f) ==
  /\ pc = "idle"
  /\ pc' = "done" /\ op' = "fixed_to_dec_str" /\ a' = f /\ b' = 0
  /\ str' = fixed_to_dec_str(f)
  /\ UNCHANGED <<shiftMode, res, dv, sinVars, fmtVars>>

\* div_fixed, one loop iteration per step
Call_div(x, y) ==
  /\ pc = "idle"
  /\ pc' = "div_loop" /\ op' = "div_fixed" /\ a' = x /\ b' = y
  /\ dv' = DivInit(x, y)
  /\ UNCHANGED <<shiftMode, res, str, sinVars, fmtVars>>

Div_step ==
  /\ pc = "div_loop" /\ dv.i >= 0
  /\ dv' = DivStep(dv)
  /\ UNCHANGED <<shiftMode, pc, op, a, b, res, str, sinVars, fmtVars>>

Div_return ==
  /\ pc = "div_loop" /\ dv.i < 0
  /\ pc' = "done" /\ res' = DivResult(dv)
  /\ UNCHANGED <<shiftMode, op, a, b, str, dv, sinVars, fmtVars>>

\* pc is tested before an argument is drawn
Next ==
  \/ pc = "idle" /\ \E x \in MulArgs, y \in MulArgs : Call_mul(x, y)
  \/ pc = "idle" /\ \E x \in DivArgsA, y \in DivArgsB : Call_div(x, y)
  \/ Div_step
  \/ Div_return
  \/ pc = "idle" /\ \E f \in ScaleArgs : Call_get_scale(f)
  \/ pc = "idle" /\ \E x \in DivFastArgsA, y \in DivFastArgsB : Call_div_fast(x, y)
  \/ pc = "idle" /\ \E f \in SqrtArgs : Call_sqrt(f)
  \/ pc = "idle" /\ \E f \in RootArgs, p \in PowExponents : Call_pow(f, p)
  \/ pc = "idle" /\ \E f \in DecArgs : Call_dec_str(f)

Spec == Init /\ [][Next]_vars

----------------------------------------------------------------------------
(* sin_fixed, one branch or loop step per action.  stack holds, for each   *)
(* suspended activation, what it does with the value its callee returns:   *)
(* "pos" for `return sin_fixed(..)`, "neg" for `return -sin_fixed(..)`.    *)

Call_sin(f) ==
  /\ pc = "idle"
  /\ pc' = "sin_entry" /\ op' = "sin_fixed" /\ a' = f /\ b' = 0
  /\ sf' = f /\ stack' = <<>> /\ rv' = 0
  /\ UNCHANGED <<shiftMode, res, str, dv, fmtVars>>

InQ1(f) == f > 0 /\ f < FIXED_PIBY2
InQ2(f) == f > FIXED_PIBY2 /\ f < FIXED_PI
InQ3(f) == f > FIXED_PI /\ f < FIXED_3PIBY2
InQ4(f) == f > FIXED_3PIBY2 /\ f < FIXED_2PI

\* the while loop's condition, negated: f is folded
Folded(f) == f > 0 /\ f < FIXED_2PI

\* the recursive call of the three reflection branches: <<frame, argument>>
Reflection(f) ==
  IF InQ2(f) THEN <<"pos", sub32(FIXED_PI, f)>>
  ELSE IF InQ3(f) THEN <<"neg", sub32(f, FIXED_PI)>>
  ELSE <<"neg", sub32(FIXED_2PI, f)>>

Sin_series ==
  /\ pc = "sin_entry" /\ InQ1(sf)
  /\ rv' = sin_series(sf) /\ pc' = "sin_ret"
  /\ UNCHANGED <<shiftMode, op, a, b, res, str, dv, sf, stack, fmtVars>>

\* a recursive call: a new activation whose caller waits in `frame`, or, for
\* `return sin_fixed(..)` compiled as a tail call, a jump that keeps the stack
SinCall(frame, arg) ==
  /\ \/ Len(stack) < MaxDepth /\ stack' = Append(stack, frame)
     \/ frame = "pos" /\ stack' = stack
  /\ sf' = arg /\ pc' = "sin_entry"
  /\ UNCHANGED <<shiftMode, op, a, b, res, str, dv, rv, fmtVars>>

Sin_reflect ==
  /\ pc = "sin_entry" /\ (InQ2(sf) \/ InQ3(sf) \/ InQ4(sf))
  /\ SinCall(Reflection(sf)[1], Reflection(sf)[2])

\* the final else branch: enter the folding loop
Sin_else ==
  /\ pc = "sin_entry" /\ ~(InQ1(sf) \/ InQ2(sf) \/ InQ3(sf) \/ InQ4(sf))
  /\ pc' = "sin_fold_test"
  /\ UNCHANGED <<shiftMode, op, a, b, res, str, dv, sinVars, fmtVars>>

\* while (!(f>0 && f<FIXED_2PI))
Sin_fold_test ==
  /\ pc = "sin_fold_test" /\ ~Folded(sf)
  /\ pc' = "sin_fold_body"
  /\ UNCHANGED <<shiftMode, op, a, b, res, str, dv, sinVars, fmtVars>>

\* the loop body: one period down, one period up, or neither
Sin_fold_body ==
  /\ pc = "sin_fold_body"
  /\ sf' = IF sf > FIXED_2PI THEN sub32(sf, FIXED_2PI)
           ELSE IF sf < 0 THEN add32(sf, FIXED_2PI)
           ELSE sf
  /\ pc' = "sin_fold_test"
  /\ UNCHANGED <<shiftMode, op, a, b, res, str, dv, stack, rv, fmtVars>>

\* return sin_fixed(f), after the loop
Sin_fold_call ==
  /\ pc = "sin_fold_test" /\ Folded(sf)
  /\ SinCall("pos", sf)

\* a recursive call the stack has no room for
Sin_overflow ==
  /\ \/ pc = "sin_entry" /\ (InQ2(sf) \/ InQ3(sf) \/ InQ4(sf))
     \/ pc = "sin_fold_test" /\ Folded(sf)
  /\ Len(stack) >= MaxDepth
  /\ pc' = "overflow"
  /\ UNCHANGED <<shiftMode, op, a, b, res, str, dv, sinVars, fmtVars>>

\* an inner activation returns to the one that called it
Sin_return ==
  /\ pc = "sin_ret" /\ stack # <<>>
  /\ rv' = IF stack[Len(stack)] = "neg" THEN neg32(rv) ELSE rv
  /\ stack' = SubSeq(stack, 1, Len(stack) - 1)
  /\ UNCHANGED <<shiftMode, pc, op, a, b, res, str, dv, sf, fmtVars>>

\* the outermost activation returns to the caller
Sin_done ==
  /\ pc = "sin_ret" /\ stack = <<>>
  /\ res' = rv /\ pc' = "done"
  /\ UNCHANGED <<shiftMode, op, a, b, str, dv, sinVars, fmtVars>>

SinNext ==
  \/ pc = "idle" /\ \E f \in SinArgs : Call_sin(f)
  \/ Sin_series
  \/ Sin_reflect
  \/ Sin_else
  \/ Sin_fold_test
  \/ Sin_fold_body
  \/ Sin_fold_call
  \/ Sin_overflow
  \/ Sin_return
  \/ Sin_done

\* the thread that called sin_fixed keeps running
SinSpec == Init /\ [][SinNext]_vars /\ WF_vars(SinNext)

----------------------------------------------------------------------------
(* The two renderers, called from two execution contexts.  A call is two   *)
(* steps, the sign and the rest, so that calls can overlap.                *)

numVars == <<shiftMode, pc, op, a, b, res, str, dv, sinVars>>

CallsMade == last["bin"].calls + last["hex"].calls

InCall(c, fn) == cpc[c] = "signed" /\ cfn[c] = fn

\* lines 294-300 and 318-324: the sign, and f = -f
Fmt_begin(c, fn, f) ==
  /\ cpc[c] # "signed" /\ CallsMade < MaxCalls
  /\ mem' = [mem EXCEPT ![buf_addr(fn, c)] = write_sign(@, f)]
  /\ cloc' = [cloc EXCEPT ![c] = abs_local(f)]
  /\ carg' = [carg EXCEPT ![c][fn] = f]
  /\ cfn' = [cfn EXCEPT ![c] = fn]
  /\ cpc' = [cpc EXCEPT ![c] = "signed"]
  /\ last' = [last EXCEPT ![fn] =
                [arg |-> f, calls |-> @.calls + 1,
                 torn |-> \E d \in Contexts \ {c} : InCall(d, fn)]]
  /\ UNCHANGED <<numVars, cref, cseen>>

\* the digit loop, the terminator and `return str`
Fmt_finish(c) ==
  /\ cpc[c] = "signed"
  /\ mem' = [mem EXCEPT ![buf_addr(cfn[c], c)] =
               IF cfn[c] = "bin" THEN bin_write_digits(@, cloc[c])
                                 ELSE hex_write_digits(@, cloc[c])]
  /\ cref' = [cref EXCEPT ![c][cfn[c]] = buf_addr(cfn[c], c)]
  /\ cpc' = [cpc EXCEPT ![c] = "returned"]
  /\ UNCHANGED <<numVars, cfn, carg, cloc, cseen, last>>

\* a context reads the string through a pointer it was handed
Fmt_read(c, fn) ==
  /\ cpc[c] # "signed" /\ cref[c][fn] # "null"
  /\ cseen' = [cseen EXCEPT ![c] = [fn |-> fn, text |-> CStr(mem[cref[c][fn]])]]
  /\ UNCHANGED <<numVars, mem, cpc, cfn, carg, cloc, cref, last>>

FmtNext ==
  \/ \E c \in Contexts, fn \in Renderers, f \in FmtArgs : Fmt_begin(c, fn, f)
  \/ \E c \in Contexts : Fmt_finish(c)
  \/ \E c \in Contexts, fn \in Renderers : Fmt_read(c, fn)

FmtSpec == Init /\ [][FmtNext]_vars

----------------------------------------------------------------------------
(* Reference values the properties compare the results with.               *)

Abs(x) == IF x < 0 THEN -x ELSE x

\* |x - y| <= 64 for int32 x and y, epsilon being 2^-10
Near(x, y) ==
  LET lo == IF x < y THEN x ELSE y
      hi == IF x < y THEN y ELSE x
  IN  lo > INT_MAX - 64 \/ hi <= lo + 64

\* -|x|, which every int32 has
NegAbs(x) == IF x > 0 THEN -x ELSE x

\* x * x >> 16 is at most INT_MAX
SquareFits(x) == x >= -11863283 /\ x <= 11863283

RECURSIVE FloorLog2(_)
FloorLog2(n) == IF n <= 1 THEN 0 ELSE 1 + FloorLog2(n \div 2)

\* k more bits of the quotient of nr0 / nb (both as negated magnitudes);
\* -1 once the quotient leaves 31 bits
RECURSIVE QuotBits(_, _, _, _)
QuotBits(q0, nr0, nb, k) ==
  LET body(q, nr) ==
        IF k = 0 \/ q < 0 THEN q
        ELSE IF q > 1073741823 THEN -1
        ELSE IF nr <= nb - nr THEN QuotBits(2 * q + 1, nr - (nb - nr), nb, k - 1)
                              ELSE QuotBits(2 * q, nr + nr, nb, k - 1)
  IN  CHOOSE v \in {body(q, nr) : q \in {q0}, nr \in {nr0}} : TRUE

\* floor(|x| * 2^16 / |y|) for y # 0, or -1 when it does not fit in 31 bits
TrueQuot(x, y) ==
  LET na == NegAbs(x)
      nb == NegAbs(y)
      q0 == na \div nb
  IN  IF na = INT_MIN /\ nb = -1 THEN -1
      ELSE QuotBits(q0, na - q0 * nb, nb, 16)

SameSign(x, y) == (x < 0) = (y < 0)

\* trailing '0's dropped, the first digit kept
RECURSIVE TrimZeros(_)
TrimZeros(ds) ==
  IF Len(ds) > 1 /\ ds[Len(ds)] = 48
    THEN TrimZeros(SubSeq(ds, 1, Len(ds) - 1))
    ELSE ds

\* sign, integer digits, '.', the 12-digit field trimmed down to one digit at most
TrimmedDec(f) ==
  <<IF f < 0 THEN 45 ELSE 32>> \o IntDigits(dec_parts(f).intpart) \o <<46>>
    \o TrimZeros(Digits12(dec_parts(f).decpart))

Returned(name) == pc = "done" /\ op = name

----------------------------------------------------------------------------
(* The properties.                                                         *)

\* C1: mul_fixed(FIXED_1, x) returns exactly x and div_fixed(x, FIXED_1)
\* returns exactly x, for every 32-bit x, the extreme values included.
C1_Identity ==
  /\ Returned("mul_fixed") /\ a = FIXED_1 => res = b
  /\ Returned("div_fixed") /\ b = FIXED_1 => res = a

\* C2: fixed_to_dec_str(f) is the sign character, the integer digits, '.', and
\* 1 to 12 fractional digits: the trailing zeros of the 12-digit field are
\* trimmed, the digit after the point is kept, no non-zero digit is lost;
\* 1.0 is " 1.0", 0 is " 0.0" and -2.5 is "-2.5".  Stated for f other than
\* INT_MIN, whose negation C leaves undefined.
C2_DecimalForm ==
  Returned("fixed_to_dec_str") /\ a # INT_MIN =>
    /\ str = TrimmedDec(a)
    /\ a = FIXED_1 => str = <<32, 49, 46, 48>>
    /\ a = 0 => str = <<32, 48, 46, 48>>
    /\ a = -163840 => str = <<45, 50, 46, 53>>

\* C3: every call of sin_fixed returns: the fold loop exits and the recursion
\* reaches the series branch.
C3_SinTerminates == (pc = "sin_entry") ~> (pc = "done")

\* C4: sin_fixed(FIXED_PIBY2) returns a value within 64 of FIXED_1 and
\* sin_fixed(FIXED_PI) returns a value within 64 of 0.
C4_SinBoundaries ==
  /\ (op = "sin_fixed" /\ a = FIXED_PIBY2)
       ~> (pc = "done" /\ Near(res, FIXED_1))
  /\ (op = "sin_fixed" /\ a = FIXED_PI)
       ~> (pc = "done" /\ Near(res, 0))

\* C5: when x * x does not overflow, sqrt_fast_fixed(mul_fixed(x, x)) is
\* within 64 of |x|.
C5_SqrtInverse ==
  Returned("sqrt_fast_fixed") =>
    \A x \in RootArgs :
      SquareFits(x) /\ a = mul_fixed(x, x) => Near(res, Abs(x))

\* C6: when b >> 8 is zero, div_fast_fixed(a, b) is INT_MAX for a positive a
\* and -INT_MAX for a negative a.
C6_SentinelSign ==
  Returned("div_fast_fixed") /\ shr32(b, 8) = 0 =>
    /\ a > 0 => res = INT_MAX
    /\ a < 0 => res = -INT_MAX

\* what a complete call of renderer fn on f leaves as text
Rendering(fn, f) ==
  IF fn = "bin" THEN CStr(fixed_to_bin_str(BinBufInit, f))
                ELSE CStr(fixed_to_hex_str(HexBufInit, f))

\* C7: every call of a renderer returns the same buffer, the two renderers'
\* buffers differ, and once the calls made so far are complete the text behind
\* any reference a renderer ever returned is the rendering of the argument most
\* recently passed to it.
C7_SharedBuffer ==
  /\ \A c \in Contexts, d \in Contexts, fn \in Renderers :
       cref[c][fn] # "null" /\ cref[d][fn] # "null" => cref[c][fn] = cref[d][fn]
  /\ \A c \in Contexts, d \in Contexts :
       cref[c]["bin"] # "null" => cref[c]["bin"] # cref[d]["hex"]
  /\ \A c \in Contexts, fn \in Renderers :
       /\ cref[c][fn] # "null"
       /\ ~last[fn].torn
       /\ \A d \in Contexts : ~InCall(d, fn)
       => CStr(mem[cref[c][fn]]) = Rendering(fn, last[fn].arg)

\* C7, its last part: a context has read, through its own reference, text that
\* is not the rendering of the argument it passed.
C7_ReadsOthersText ==
  \E c \in Contexts :
    /\ cseen[c].fn \in Renderers
    /\ cseen[c].text # Rendering(cseen[c].fn, carg[c][cseen[c].fn])
    /\ \A fn \in Renderers : ~last[fn].torn

\* C8: when x * x does not overflow, pow_fixed(x, INT_TO_FIX(2)) is within 64
\* of mul_fixed(x, x); the exponent splits into 2 and 0 and the fractional
\* factor is FIXED_1.
C8_PowSquare ==
  Returned("pow_fixed") /\ b = INT_TO_FIX(2) /\ SquareFits(a) =>
    /\ Near(res, mul_fixed(a, a))
    /\ pow_p_int(b) = 2
    /\ pow_p_frac(b) = 0
    /\ pow_fixed_to_frac(a, pow_p_frac(b)) = FIXED_1

\* C8: 3.0 squared has been computed as 9.0
C8_NineReturned ==
  Returned("pow_fixed") /\ a = 196608 /\ b = 131072 /\ res = 589824

\* C9: for b # 0 and a quotient floor(|a| * 2^16 / |b|) that fits in 31 bits,
\* div_fixed(a, b) is that quotient with the sign of a times the sign of b, and
\* the running remainder never leaves the range of its variable (never turns
\* negative); div_fixed(10.0, 4.0) is 2.5.  Stated for operands other than
\* INT_MIN, whose negation C leaves undefined.
C9_LongDivision ==
  /\ op = "div_fixed" /\ b # 0 /\ a # INT_MIN /\ b # INT_MIN /\ TrueQuot(a, b) >= 0 =>
       /\ pc = "div_loop" => dv.r >= 0
       /\ pc = "done" =>
            res = (IF SameSign(a, b) THEN TrueQuot(a, b) ELSE -TrueQuot(a, b))
  /\ Returned("div_fixed") /\ a = 655360 /\ b = 262144 => res = 163840

\* C10, as stated: for positive f, get_scale(f) is floor(log2(f / 65536)),
\* within -16..15; get_scale(FIXED_1) is 0.
C10_FloorLog2 ==
  Returned("get_scale") /\ a > 0 =>
    /\ res = FloorLog2(a) - 16
    /\ res \in -16..15
    /\ a = FIXED_1 => res = 0

\* C10, amended: for positive f, get_scale(f) is floor(log2(f / 65536)) + 1,
\* within -15..15; get_scale(FIXED_1) is 1.
C10_FloorLog2PlusOne ==
  Returned("get_scale") /\ a > 0 =>
    /\ res = FloorLog2(a) - 15
    /\ res \in -15..15
    /\ a = FIXED_1 => res = 1

\* C10: get_scale(FIXED_1) has returned 1
C10_OneReturned == Returned("get_scale") /\ a = FIXED_1 /\ res = 1

====
